---- MODULE Spec2Model ----
(***************************************************************************)
(* A model of reduce_geometry (src/reduce_geometry.py) and of the renderer *)
(* it queries (src/view_rendering.py).                                     *)
(*                                                                         *)
(* A mesh is the list of connected components mesh.split() returns; each   *)
(* component is an axis-aligned box with integer corners, so that its      *)
(* projection in every view is a rectangle and its bounding-box centroid   *)
(* is exact.  Every vertex of the mesh belongs to one of its components.   *)
(*                                                                         *)
(* Units: clearance is held in hundredths of a mesh unit (CLEARANCE = 0.01 *)
(* is 1) and difference_threshold in thousandths (DIFFERENCE_THRESHOLD =   *)
(* 0.001 is 1); all comparisons of the source are made exact by            *)
(* cross-multiplying.  Indices are 1-based.                                *)
(*                                                                         *)
(* render_views: the raster is taken over the data window the source sets  *)
(* with set_xlim/set_ylim (the merged mesh's projected bounding box plus   *)
(* the 5% margin, or 1.0 when the span is zero), divided into size x size  *)
(* pixels; a pixel is inked (0) when a projected face overlaps it and      *)
(* white (255) otherwise.  The letterboxing of set_aspect("equal") and the *)
(* figure's outer padding are not modelled.                                *)
(***************************************************************************)
EXTENDS Integers, Sequences, FiniteSets, TLC

\* Largest number of components of an input mesh.
MaxComponents == 3

\* src/reduce_geometry.py:14, in hundredths of a mesh unit.
CLEARANCE == 1
\* src/reduce_geometry.py:16, in thousandths.
DIFFERENCE_THRESHOLD == 1
\* src/reduce_geometry.py:32, the brightness below which a pixel is covered.
MASK_THRESHOLD == 250

Box(x0, x1, y0, y1, z0, z1) ==
    [x0 |-> x0, x1 |-> x1, y0 |-> y0, y1 |-> y1, z0 |-> z0, z1 |-> z1]

\* The solids input meshes are assembled from: three resting on Z = 0 and
\* one whose lowest vertex is at Z = 1.  No two of them touch.
Catalogue ==
    { Box(4, 8, 6, 7, 0, 3), Box(3, 4, 0, 2, 0, 3), Box(5, 6, 0, 1, 0, 2),
      Box(2, 3, 3, 4, 1, 3) }

\* Values of the clearance argument: negative, the default, and one mesh unit.
Clearances == {0 - 1, CLEARANCE, 100}
\* Values of the difference_threshold argument: the default and 0.125.
Thresholds == {DIFFERENCE_THRESHOLD, 125}
\* Values of the image_size argument.
ImageSizes == {4}

Apart(a, b) ==
    \/ a.x1 < b.x0 \/ b.x1 < a.x0
    \/ a.y1 < b.y0 \/ b.y1 < a.y0
    \/ a.z1 < b.z0 \/ b.z1 < a.z0

\* What mesh.split() can return: distinct solids that do not touch.
IsSplit(s) ==
    \A i, j \in 1..Len(s) : i # j => Apart(s[i], s[j])

Meshes ==
    { s \in UNION { [1..n -> Catalogue] : n \in 0..MaxComponents } : IsSplit(s) }

Range(s) == { s[i] : i \in 1..Len(s) }

Min(S) == CHOOSE m \in S : \A n \in S : m <= n
Max(S) == CHOOSE m \in S : \A n \in S : m >= n

----------------------------------------------------------------------------
(* view_rendering.py *)

VIEW_ANGLES == <<"front", "left", "right">>
Views == Range(VIEW_ANGLES)

\* The horizontal extent of a component in a view: the vertices times the
\* "right" column of _projection_basis.  For front (0 degrees) right is
\* (1,0,0); for left (+45) it is (1,1,0)/sqrt 2; for right (-45) it is
\* (1,-1,0)/sqrt 2.  The factor 1/sqrt 2 is dropped: the window is framed on
\* the projected extent, so a uniform scale of an axis changes no pixel.
\* "up" is (0,0,1) in every view.
ProjectVertices(c, view) ==
    CASE view = "front" -> [h0 |-> c.x0, h1 |-> c.x1, v0 |-> c.z0, v1 |-> c.z1]
      [] view = "left"  -> [h0 |-> c.x0 + c.y0, h1 |-> c.x1 + c.y1,
                            v0 |-> c.z0, v1 |-> c.z1]
      [] view = "right" -> [h0 |-> c.x0 - c.y1, h1 |-> c.x1 - c.y0,
                            v0 |-> c.z0, v1 |-> c.z1]

\* Twenty times the margin: span * 0.05 or 1.0.
Margin20(span) == IF span = 0 THEN 20 ELSE span

Pixels(size) == (0..(size - 1)) \X (0..(size - 1))

\* Whether [a0, a1] overlaps pixel band k of the window that starts at
\* lo20/20 and is len20/20 long, cut in size bands (everything times 20*size).
CoversBand(a0, a1, k, lo20, len20, size) ==
    /\ 20 * size * a0 < size * lo20 + (k + 1) * len20
    /\ 20 * size * a1 > size * lo20 + k * len20

\* The data window set_xlim and set_ylim are given, times 20: the projected
\* bounding box of all the faces, widened by the margin on every side.
Window20(rects) ==
    LET min_x == Min({ r.h0 : r \in rects })
        max_x == Max({ r.h1 : r \in rects })
        min_y == Min({ r.v0 : r \in rects })
        max_y == Max({ r.v1 : r \in rects })
        mx20  == Margin20(max_x - min_x)
        my20  == Margin20(max_y - min_y)
    IN  [xlo  |-> 20 * min_x - mx20, xlen |-> 20 * (max_x - min_x) + 2 * mx20,
         ylo  |-> 20 * min_y - my20, ylen |-> 20 * (max_y - min_y) + 2 * my20]

\* The canvas: grey levels per pixel, column p[1] from the left and row p[2]
\* from the top; black where a face overlaps the pixel, white elsewhere.
Raster(rects, w, size) ==
    [ p \in Pixels(size) |->
        IF \E r \in rects :
             /\ CoversBand(r.h0, r.h1, p[1], w.xlo, w.xlen, size)
             /\ CoversBand(r.v0, r.v1, size - 1 - p[2], w.ylo, w.ylen, size)
        THEN 0 ELSE 255 ]

\* One orthographic projection of a merged mesh (a non-empty list of
\* components).
RenderProjection(meshes, view, size) ==
    LET rects == { ProjectVertices(meshes[i], view) : i \in 1..Len(meshes) }
    IN  Raster(rects, Window20(rects), size)

RenderViews(meshes, size) ==
    [ name \in Views |-> RenderProjection(meshes, name, size) ]

----------------------------------------------------------------------------
(* reduce_geometry.py: helpers *)

\* _merge_meshes raises on an empty list; otherwise the merged mesh is the
\* list of its components.
MergeRaises(meshes) == meshes = <<>>
MergeMeshes(meshes) == meshes

BinaryMask(image) == { p \in DOMAIN image : image[p] < MASK_THRESHOLD }

\* The pixels where the two masks differ.
MaskDifference(a, b) == (a \ b) \cup (b \ a)

RatioExceeds_orEqual(base_mask, candidate_mask, size, threshold) ==
    Cardinality(MaskDifference(base_mask, candidate_mask)) * 1000
        >= threshold * (size * size)

\* difference_ratio > threshold, with threshold in thousandths.
RatioExceeds(base_mask, candidate_mask, size, threshold) ==
    Cardinality(MaskDifference(base_mask, candidate_mask)) * 1000
        > threshold * (size * size)

ViewsWithinThreshold_any(baseline, candidate, size, threshold) ==
    \E name \in Views :
        ~RatioExceeds(BinaryMask(baseline[name]), BinaryMask(candidate[name]),
                      size, threshold)

\* The loop over the views, returning False at the first that exceeds.
ViewsWithinThreshold(baseline, candidate, size, threshold) ==
    LET Scan[k \in 0..Len(VIEW_ANGLES)] ==
            IF k = 0 THEN TRUE
            ELSE /\ Scan[k - 1]
                 /\ ~RatioExceeds(BinaryMask(baseline[VIEW_ANGLES[k]]),
                                  BinaryMask(candidate[VIEW_ANGLES[k]]),
                                  size, threshold)
    IN  Scan[Len(VIEW_ANGLES)]

\* Twice the bounding-box centroid.
ComponentCentroid2(c) == <<c.x0 + c.x1, c.y0 + c.y1, c.z0 + c.z1>>

\* The sum over the components of twice their centroids: 2n times the mean.
ComponentsCenter2n(components) ==
    LET Sum[k \in 0..Len(components)] ==
            IF k = 0 THEN <<0, 0, 0>>
            ELSE LET c == ComponentCentroid2(components[k])
                     s == Sum[k - 1]
                 IN  <<s[1] + c[1], s[2] + c[2], s[3] + c[3]>>
    IN  Sum[Len(components)]

\* (2n)^2 times the squared distance of the component's centroid from the
\* mean of the n active centroids.
Distance2(component, active) ==
    LET n == Len(active)
        c == ComponentCentroid2(component)
        s == ComponentsCenter2n(active)
        d == [k \in 1..3 |-> n * c[k] - s[k]]
    IN  d[1] * d[1] + d[2] * d[2] + d[3] * d[3]

\* [comp for keep, comp in zip(flags, components) if keep]
Select(flags, components) ==
    LET F[k \in 0..Len(components)] ==
            IF k = 0 THEN <<>>
            ELSE IF flags[k] THEN Append(F[k - 1], components[k]) ELSE F[k - 1]
    IN  F[Len(components)]

----------------------------------------------------------------------------
(* reduce_geometry.py: reduce_geometry *)

VARIABLES
    mesh,                  \* the argument: the components split() returns
    clearance,             \* the argument, in hundredths
    image_size,            \* the argument
    difference_threshold,  \* the argument, in thousandths
    pc,                    \* "call", "loop", "done" or "error"
    kept_components,
    removed_by_clearance,
    kept_flags,
    considered_flags,
    current_views,
    result,                \* what the call returned
    first_views,           \* history: the first baseline
    renders,               \* history: the number of render_views calls
    rendered,              \* history: the components of every mesh rendered
    log,                   \* history: the loop's iterations, in order
    tie,                   \* history: some selection had two farthest candidates
    call,                  \* 1, or 2 for a second call
    first                  \* the first call, while the second runs

args == <<mesh, clearance, image_size, difference_threshold>>
locals == <<kept_components, removed_by_clearance, kept_flags,
            considered_flags, current_views>>
history == <<first_views, renders, rendered, log, tie>>
calls == <<call, first>>
vars == <<args, pc, locals, result, history, calls>>

NoResult == [returned |-> FALSE, mesh |-> <<>>, kept_count |-> 0, removed_count |-> 0]
NoFirst == [kind |-> "none", mesh |-> <<>>, result |-> NoResult, log |-> <<>>,
            tie |-> FALSE]
NoViews == [name \in Views |-> <<>>]

GroundLevel_zero(m) == 0

\* float(mesh.vertices[:, 2].min())
GroundLevel(m) == Min({ m[i].z0 : i \in 1..Len(m) })

Grounded_strict(component, ground_level, c) ==
    100 * component.z0 < 100 * ground_level + c

\* min_z <= ground_level + clearance
Grounded(component, ground_level, c) ==
    100 * component.z0 <= 100 * ground_level + c

\* The clearance loop's kept_components.
KeptAfterClearance(m, c) ==
    Select([i \in 1..Len(m) |-> Grounded(m[i], GroundLevel(m), c)], m)

\* The while condition: some kept component is not considered yet.
LoopCondition ==
    ~(\A i \in 1..Len(kept_components) : considered_flags[i] \/ ~kept_flags[i])

ActiveComponents_all == kept_components

\* [comp for keep, comp in zip(kept_flags, kept_components) if keep]
ActiveComponents == Select(kept_flags, kept_components)

FarthestIdx_first ==
    IF \E i \in 1..Len(kept_components) : kept_flags[i] /\ ~considered_flags[i]
    THEN Min({ i \in 1..Len(kept_components) : kept_flags[i] /\ ~considered_flags[i] })
    ELSE 0

\* The scan for the farthest unconsidered kept component: 0 stands for None,
\* -1 for -inf; a later component replaces the farthest only when strictly
\* farther.
FarthestIdx ==
    LET Scan[k \in 0..Len(kept_components)] ==
            IF k = 0 THEN [idx |-> 0, distance |-> 0 - 1]
            ELSE LET farthest == Scan[k - 1]
                     distance == Distance2(kept_components[k], ActiveComponents)
                 IN  IF ~kept_flags[k] \/ considered_flags[k] THEN farthest
                     ELSE IF distance > farthest.distance
                          THEN [idx |-> k, distance |-> distance]
                          ELSE farthest
    IN  Scan[Len(kept_components)].idx

\* Whether two unconsidered kept components are both farthest.
Tied ==
    LET open == { i \in 1..Len(kept_components) :
                    kept_flags[i] /\ ~considered_flags[i] }
        far(i) == \A j \in open :
                    Distance2(kept_components[i], ActiveComponents)
                      >= Distance2(kept_components[j], ActiveComponents)
    IN  Cardinality({ i \in open : far(i) }) > 1

\* candidate_flags = kept_flags.copy(); candidate_flags[farthest_idx] = False
CandidateFlags(idx) == [kept_flags EXCEPT ![idx] = FALSE]

CandidateMeshes_stale(candidate_flags) == Select(kept_flags, kept_components)

CandidateMeshes(candidate_flags) == Select(candidate_flags, kept_components)

NewBaseline_stale(candidate_views) == current_views

\* current_views = candidate_views
NewBaseline(candidate_views) == candidate_views

NoneLeft_never(meshes) == FALSE

\* if not candidate_meshes
NoneLeft(meshes) == meshes = <<>>

MarkConsidered_onAccept(idx) ==
    IF kept_flags'[idx] THEN considered_flags
    ELSE [considered_flags EXCEPT ![idx] = TRUE]

\* considered_flags[farthest_idx] = True
MarkConsidered(idx) == [considered_flags EXCEPT ![idx] = TRUE]

RemovedCount_searchOnly(by_clearance, n_kept_components, kept_count) ==
    n_kept_components - kept_count

\* removed_by_clearance + (len(kept_components) - kept_count)
RemovedCount(by_clearance, n_kept_components, kept_count) ==
    by_clearance + (n_kept_components - kept_count)

Init ==
    /\ mesh \in Meshes
    /\ clearance \in Clearances
    /\ image_size \in ImageSizes
    /\ difference_threshold \in Thresholds
    /\ pc = "call"
    /\ kept_components = <<>>
    /\ removed_by_clearance = 0
    /\ kept_flags = <<>>
    /\ considered_flags = <<>>
    /\ current_views = NoViews
    /\ result = NoResult
    /\ first_views = NoViews
    /\ renders = 0
    /\ rendered = {}
    /\ log = <<>>
    /\ tie = FALSE
    /\ call = 1
    /\ first = NoFirst

\* Lines 97-117 when nothing is raised: the clearance filter, the flags and
\* the baseline render.
ClearanceFilter ==
    /\ pc = "call"
    /\ mesh # <<>>
    /\ LET kept == KeptAfterClearance(mesh, clearance)
       IN  /\ kept # <<>>
           /\ ~MergeRaises(kept)
           /\ kept_components' = kept
           /\ removed_by_clearance' = Len(mesh) - Len(kept)
           /\ kept_flags' = [i \in 1..Len(kept) |-> TRUE]
           /\ considered_flags' = [i \in 1..Len(kept) |-> FALSE]
           /\ current_views' = RenderViews(MergeMeshes(kept), image_size)
           /\ first_views' = current_views'
           /\ renders' = renders + 1
           /\ rendered' = rendered \cup Range(kept)
    /\ pc' = "loop"
    /\ UNCHANGED <<args, result, log, tie, calls>>

\* Where the call raises: min() of no vertices (line 97), nothing left by the
\* clearance filter (line 111), _merge_meshes of an empty candidate (line
\* 144) or of an empty reduced list (line 154).
Raises ==
    IF pc = "call"
    THEN mesh = <<>> \/ KeptAfterClearance(mesh, clearance) = <<>>
    ELSE IF LoopCondition /\ FarthestIdx # 0
         THEN LET meshes == CandidateMeshes(CandidateFlags(FarthestIdx))
              IN  ~NoneLeft(meshes) /\ MergeRaises(meshes)
         ELSE MergeRaises(Select(kept_flags, kept_components))

Fail ==
    /\ pc \in {"call", "loop"}
    /\ Raises
    /\ pc' = "error"
    /\ UNCHANGED <<args, locals, result, history, calls>>

\* Lines 138-143: removing the selected component would leave nothing.
SkipSoleSurvivor ==
    /\ pc = "loop"
    /\ LoopCondition
    /\ FarthestIdx # 0
    /\ NoneLeft(CandidateMeshes(CandidateFlags(FarthestIdx)))
    /\ kept_flags' = kept_flags
    /\ considered_flags' = MarkConsidered(FarthestIdx)
    /\ log' = Append(log, [idx |-> FarthestIdx, outcome |-> "skipped"])
    /\ tie' = (tie \/ Tied)
    /\ UNCHANGED <<args, pc, kept_components, removed_by_clearance,
                   current_views, result, first_views, renders, rendered, calls>>

\* Lines 144-151 when the candidate's views are within the threshold.
AcceptRemoval ==
    /\ pc = "loop"
    /\ LoopCondition
    /\ FarthestIdx # 0
    /\ LET candidate_flags == CandidateFlags(FarthestIdx)
           candidate_meshes == CandidateMeshes(candidate_flags)
           candidate_views == RenderViews(MergeMeshes(candidate_meshes), image_size)
       IN  /\ ~NoneLeft(candidate_meshes)
           /\ ~MergeRaises(candidate_meshes)
           /\ ViewsWithinThreshold(current_views, candidate_views, image_size,
                                   difference_threshold)
           /\ kept_flags' = candidate_flags
           /\ current_views' = NewBaseline(candidate_views)
           /\ rendered' = rendered \cup Range(candidate_meshes)
    /\ considered_flags' = MarkConsidered(FarthestIdx)
    /\ renders' = renders + 1
    /\ log' = Append(log, [idx |-> FarthestIdx, outcome |-> "accepted"])
    /\ tie' = (tie \/ Tied)
    /\ UNCHANGED <<args, pc, kept_components, removed_by_clearance, result,
                   first_views, calls>>

\* Lines 144-151 when some view exceeds the threshold.
RejectRemoval ==
    /\ pc = "loop"
    /\ LoopCondition
    /\ FarthestIdx # 0
    /\ LET candidate_flags == CandidateFlags(FarthestIdx)
           candidate_meshes == CandidateMeshes(candidate_flags)
           candidate_views == RenderViews(MergeMeshes(candidate_meshes), image_size)
       IN  /\ ~NoneLeft(candidate_meshes)
           /\ ~MergeRaises(candidate_meshes)
           /\ ~ViewsWithinThreshold(current_views, candidate_views, image_size,
                                    difference_threshold)
           /\ rendered' = rendered \cup Range(candidate_meshes)
    /\ kept_flags' = kept_flags
    /\ considered_flags' = MarkConsidered(FarthestIdx)
    /\ renders' = renders + 1
    /\ log' = Append(log, [idx |-> FarthestIdx, outcome |-> "rejected"])
    /\ tie' = (tie \/ Tied)
    /\ UNCHANGED <<args, pc, kept_components, removed_by_clearance,
                   current_views, result, first_views, calls>>

\* Lines 153-158, after the loop ends (its condition fails, or the break).
Return ==
    /\ pc = "loop"
    /\ ~LoopCondition \/ FarthestIdx = 0
    /\ LET reduced_meshes == Select(kept_flags, kept_components)
           kept_count == Len(reduced_meshes)
       IN  /\ ~MergeRaises(reduced_meshes)
           /\ result' = [returned |-> TRUE,
                         mesh |-> MergeMeshes(reduced_meshes),
                         kept_count |-> kept_count,
                         removed_count |->
                             RemovedCount(removed_by_clearance,
                                          Len(kept_components), kept_count)]
    /\ pc' = "done"
    /\ UNCHANGED <<args, locals, history, calls>>

Next ==
    \/ ClearanceFilter
    \/ Fail
    \/ SkipSoleSurvivor
    \/ AcceptRemoval
    \/ RejectRemoval
    \/ Return

Spec == Init /\ [][Next]_vars

----------------------------------------------------------------------------
(* A second call of reduce_geometry with the same clearance, image_size and *)
(* difference_threshold, on the mesh the first call returned or on the      *)
(* first call's components in another order.                                *)

Orderings(s) ==
    { [i \in 1..Len(s) |-> s[f[i]]] :
        f \in { g \in [1..Len(s) -> 1..Len(s)] :
                  \A i, j \in 1..Len(s) : i # j => g[i] # g[j] } }

CallAgain(kind, m) ==
    /\ mesh' = m
    /\ first' = [kind |-> kind, mesh |-> mesh, result |-> result, log |-> log,
                 tie |-> tie]
    /\ call' = 2
    /\ pc' = "call"
    /\ kept_components' = <<>>
    /\ removed_by_clearance' = 0
    /\ kept_flags' = <<>>
    /\ considered_flags' = <<>>
    /\ current_views' = NoViews
    /\ result' = NoResult
    /\ first_views' = NoViews
    /\ renders' = 0
    /\ rendered' = {}
    /\ log' = <<>>
    /\ tie' = FALSE
    /\ UNCHANGED <<clearance, image_size, difference_threshold>>

\* The returned mesh, split again (in whatever order the split lists it).
RerunOnReduced ==
    /\ pc = "done"
    /\ call = 1
    /\ \E m \in Orderings(result.mesh) : CallAgain("reduced", m)

\* The same components in another order.
RerunReordered ==
    /\ pc = "done"
    /\ call = 1
    /\ \E m \in Orderings(mesh) \ {mesh} : CallAgain("reordered", m)

NextTwice ==
    \/ Next
    \/ RerunOnReduced
    \/ RerunReordered

SpecTwice == Init /\ [][NextTwice]_vars

----------------------------------------------------------------------------
(* The claims *)

\* The number of pixels whose covered/uncovered class differs between the
\* two images.
DifferingPixels(image_a, image_b) ==
    Cardinality({ p \in DOMAIN image_a :
                    (image_a[p] < MASK_THRESHOLD) # (image_b[p] < MASK_THRESHOLD) })

\* differing / total <= threshold / 1000
RatioWithin(differing, size, threshold) ==
    differing * 1000 <= threshold * size * size

Entries(l, outcome) == { k \in 1..Len(l) : l[k].outcome = outcome }
Accepted(l) == Cardinality(Entries(l, "accepted"))

\* The components holding kept flags after the first k iterations of log l.
KeptAfter(l, k) ==
    { i \in 1..Len(kept_components) :
        ~\E j \in 1..k : l[j].idx = i /\ l[j].outcome = "accepted" }

Floating(c) == 100 * c.z0 > 100 * Min({ mesh[i].z0 : i \in 1..Len(mesh) }) + clearance

\* C1 as stated: on return, in each of the three views the render of the
\* final kept set differs from the render of all components kept after the
\* clearance filter in at most difference_threshold of the pixels.
C1_WithinToleranceOfFirstBaseline ==
    pc = "done" =>
        \A name \in Views :
            RatioWithin(DifferingPixels(
                            RenderViews(result.mesh, image_size)[name],
                            RenderViews(kept_components, image_size)[name]),
                        image_size, difference_threshold)

\* C1 amended: on return, in each view the render of the final kept set
\* differs from the first baseline in at most difference_threshold times the
\* number of accepted removals of the pixels (every acceptance is measured
\* against the baseline the previous acceptance left).
C1_WithinToleranceTimesRemovals ==
    pc = "done" =>
        \A name \in Views :
            RatioWithin(DifferingPixels(
                            RenderViews(result.mesh, image_size)[name],
                            RenderViews(kept_components, image_size)[name]),
                        image_size, Accepted(log) * difference_threshold)

\* Two removals were accepted and some view of the result is farther from
\* the first baseline than one tolerance.
C1_Witness ==
    /\ pc = "done"
    /\ Accepted(log) >= 2
    /\ \E name \in Views :
           ~RatioWithin(DifferingPixels(
                            RenderViews(result.mesh, image_size)[name],
                            first_views[name]),
                        image_size, difference_threshold)

\* C2: the search never empties the kept set: while the loop runs and on
\* return some component holds its kept flag, kept_count >= 1 on return, and
\* an iteration is a skip (the component marked considered, nothing rendered,
\* nothing removed) exactly when the selected component was the only one
\* kept.
C2_KeptSetNeverEmpty ==
    pc \in {"loop", "done"} =>
        /\ \E i \in 1..Len(kept_components) : kept_flags[i]
        /\ pc = "done" => result.kept_count >= 1
        /\ \A k \in 1..Len(log) :
               /\ log[k].outcome = "skipped"
                      <=> KeptAfter(log, k - 1) = {log[k].idx}
               /\ log[k].outcome = "skipped" =>
                      kept_flags[log[k].idx] /\ considered_flags[log[k].idx]
        /\ renders = 1 + Len(log) - Cardinality(Entries(log, "skipped"))

\* The search pruned a mesh of several components down to one and then
\* skipped the survivor.
C2_Witness ==
    /\ pc = "done"
    /\ Len(kept_components) >= 2
    /\ result.kept_count = 1
    /\ Entries(log, "skipped") # {}

\* Whether log l accepts a removal after having rejected one.
AcceptedAfterRejection(l) ==
    \E j, k \in 1..Len(l) :
        j < k /\ l[j].outcome = "rejected" /\ l[k].outcome = "accepted"

\* C3 as stated: a second call on the returned mesh, with the same
\* parameters, returns removed_count = 0 and the first call's kept_count.
C3_SecondRunRemovesNothing ==
    (call = 2 /\ first.kind = "reduced" /\ pc = "done") =>
        /\ result.removed_count = 0
        /\ result.kept_count = first.result.kept_count

\* C3 amended: a second call on the returned mesh, with the same
\* parameters, does not fail and its clearance filter removes nothing; it
\* returns removed_count = 0 and the first call's kept_count provided the
\* first call accepted no removal after having rejected one (a component
\* rejected against a kept set that later shrank may be removed by the
\* second call).
C3_SecondRunRemovesNothingUnlessLateAcceptance ==
    (call = 2 /\ first.kind = "reduced") =>
        /\ pc # "error"
        /\ pc \in {"loop", "done"} =>
               /\ removed_by_clearance = 0
               /\ Len(kept_components) = first.result.kept_count
        /\ (pc = "done" /\ ~AcceptedAfterRejection(first.log)) =>
               /\ result.removed_count = 0
               /\ result.kept_count = first.result.kept_count

\* The first call removed a component and rejected the removal of others,
\* none accepted after a rejection; the second call, on what it returned,
\* tested them again and returned.
C3_Witness ==
    /\ call = 2
    /\ first.kind = "reduced"
    /\ pc = "done"
    /\ first.result.removed_count >= 1
    /\ Entries(first.log, "rejected") # {}
    /\ ~AcceptedAfterRejection(first.log)
    /\ Entries(log, "rejected") # {}
    /\ result.removed_count = 0

\* C4 as stated: a call on the same components in another order keeps the
\* same components and returns the same kept_count and removed_count.
C4_OrderInsensitive ==
    (call = 2 /\ first.kind = "reordered" /\ pc = "done") =>
        /\ Range(result.mesh) = Range(first.result.mesh)
        /\ result.kept_count = first.result.kept_count
        /\ result.removed_count = first.result.removed_count

\* C4 amended: a call on the same components in another order keeps the
\* same components and returns the same counts provided that in every
\* iteration a single unconsidered kept component was farthest from the
\* center (of two equally far ones the one listed first is tested first, and
\* the outcome can depend on that).
C4_OrderInsensitiveWithoutTies ==
    /\ (call = 2 /\ first.kind = "reordered") => pc # "error"
    /\ (call = 2 /\ first.kind = "reordered" /\ pc = "done" /\ ~first.tie) =>
           /\ Range(result.mesh) = Range(first.result.mesh)
           /\ result.kept_count = first.result.kept_count
           /\ result.removed_count = first.result.removed_count

\* Three components in another order, no selection tied, a removal accepted.
C4_Witness ==
    /\ call = 2
    /\ first.kind = "reordered"
    /\ pc = "done"
    /\ ~first.tie
    /\ Len(first.log) >= 3
    /\ Accepted(first.log) >= 1
    /\ Accepted(log) >= 1

\* The views of the kept set without component idx.
ViewsWithout(flags, idx) ==
    RenderViews(Select([flags EXCEPT ![idx] = FALSE], kept_components), image_size)

\* Whether removing idx from the kept set changes at most difference_threshold
\* of the pixels of the baseline in every view.
AllViewsWithin(baseline, flags, idx) ==
    \A name \in Views :
        RatioWithin(DifferingPixels(baseline[name], ViewsWithout(flags, idx)[name]),
                    image_size, difference_threshold)

\* C5: an iteration that tests a removal accepts it exactly when the ratio of
\* differing pixels against the current baseline is <= difference_threshold
\* in all three views; on acceptance the kept set and the baseline become the
\* candidate's; otherwise both stay and only the considered flag of the
\* tested component changes.
C5_AcceptedExactlyWhenAllViewsWithin ==
    [][ (pc = "loop" /\ Len(log') = Len(log) + 1
            /\ log'[Len(log')].outcome # "skipped") =>
        LET idx == log'[Len(log')].idx
        IN  /\ kept_flags[idx] /\ ~considered_flags[idx]
            /\ considered_flags' = [considered_flags EXCEPT ![idx] = TRUE]
            /\ kept_components' = kept_components
            /\ IF AllViewsWithin(current_views, kept_flags, idx)
               THEN /\ log'[Len(log')].outcome = "accepted"
                    /\ kept_flags' = [kept_flags EXCEPT ![idx] = FALSE]
                    /\ current_views' = ViewsWithout(kept_flags, idx)
               ELSE /\ log'[Len(log')].outcome = "rejected"
                    /\ kept_flags' = kept_flags
                    /\ current_views' = current_views
      ]_vars

\* A removal was accepted although it changed pixels, and the last removal
\* tested was rejected because a single view exceeded the threshold.
C5_Witness ==
    /\ pc = "loop"
    /\ Accepted(log) >= 1
    /\ current_views # first_views
    /\ log[Len(log)].outcome = "rejected"
    /\ Cardinality({ name \in Views :
           ~RatioWithin(DifferingPixels(current_views[name],
                            ViewsWithout(kept_flags, log[Len(log)].idx)[name]),
                        image_size, difference_threshold) }) = 1

\* C6: with ground_level the least Z of the input mesh, the components whose
\* least Z exceeds ground_level + clearance are exactly those counted in
\* removed_by_clearance; they are never rendered, never candidates and not in
\* the reduced mesh; the others, in their order, are the candidate pool.
C6_GroundPlaneFilter ==
    pc \in {"loop", "done"} =>
        /\ removed_by_clearance =
               Cardinality({ i \in 1..Len(mesh) : Floating(mesh[i]) })
        /\ kept_components =
               Select([i \in 1..Len(mesh) |-> ~Floating(mesh[i])], mesh)
        /\ \A i \in 1..Len(mesh) :
               Floating(mesh[i]) =>
                   /\ mesh[i] \notin rendered
                   /\ mesh[i] \notin Range(kept_components)
                   /\ mesh[i] \notin Range(result.mesh)
        /\ \A k \in 1..Len(log) : ~Floating(kept_components[log[k].idx])
        /\ pc = "done" =>
               \A i \in 1..Len(result.mesh) :
                   100 * result.mesh[i].z0
                       <= 100 * Min({ mesh[j].z0 : j \in 1..Len(mesh) }) + clearance

\* A solid floating above a grounded one, with the default clearance, is gone
\* from the returned mesh.
C6_Witness ==
    /\ pc = "done"
    /\ clearance = CLEARANCE
    /\ removed_by_clearance >= 1
    /\ \E c \in Range(mesh) : c.z0 > 0 /\ c \notin Range(result.mesh)
    /\ \A c \in Range(result.mesh) : c.z0 = 0

\* Whether the split yields no component or every component floats.
NothingGrounded ==
    mesh = <<>> \/ \A i \in 1..Len(mesh) : Floating(mesh[i])

\* C7: when the split yields no component or the clearance filter removes
\* every component the call never gets past the filter, and it fails only
\* then: a failed call has rendered nothing, run no iteration and returned
\* nothing, so the merge never fails on an empty kept set in or after the
\* removal loop.
C7_FailsOnlyBeforeTheSearch ==
    /\ NothingGrounded => pc \in {"call", "error"}
    /\ (pc = "call" /\ NothingGrounded) => (ENABLED Fail /\ ~ENABLED ClearanceFilter)
    /\ pc = "error" =>
           /\ NothingGrounded
           /\ renders = 0
           /\ rendered = {}
           /\ log = <<>>
           /\ result = NoResult

\* A mesh of several components was rejected because all of them float.
C7_Witness ==
    /\ pc = "error"
    /\ Len(mesh) >= 2
    /\ \A i \in 1..Len(mesh) : Floating(mesh[i])

\* C8: on return removed_count is removed_by_clearance plus the number of
\* components that passed the filter and lost their kept flag in the search,
\* kept_count is the number of kept flags still set, and the two add up to
\* the number of components of the split.
C8_CountAccounting ==
    pc = "done" =>
        /\ result.removed_count =
               removed_by_clearance
                 + Cardinality({ i \in 1..Len(kept_components) : ~kept_flags[i] })
        /\ Cardinality({ i \in 1..Len(kept_components) : ~kept_flags[i] })
               = Accepted(log)
        /\ result.kept_count =
               Cardinality({ i \in 1..Len(kept_components) : kept_flags[i] })
        /\ result.kept_count = Len(result.mesh)
        /\ result.kept_count + result.removed_count = Len(mesh)

\* A return after both the clearance filter and the search removed a
\* component.
C8_Witness ==
    /\ pc = "done"
    /\ removed_by_clearance >= 1
    /\ Accepted(log) >= 1
    /\ result.kept_count >= 1

\* C9: a mesh of one component, with clearance >= 0, never fails; the call
\* renders the baseline only, tests no removal, and returns that component
\* with kept_count = 1 and removed_count = 0.
C9_SingleComponentUnchanged ==
    (Len(mesh) = 1 /\ clearance >= 0) =>
        /\ pc # "error"
        /\ pc = "call" => ENABLED ClearanceFilter
        /\ pc = "loop" => ENABLED SkipSoleSurvivor \/ ENABLED Return
        /\ Entries(log, "accepted") = {} /\ Entries(log, "rejected") = {}
        /\ renders <= 1
        /\ pc = "done" =>
               /\ result.returned
               /\ result.mesh = mesh
               /\ result.kept_count = 1
               /\ result.removed_count = 0

\* A single component whose lowest vertex is above Z = 0 came back unchanged.
C9_Witness ==
    /\ pc = "done"
    /\ Len(mesh) = 1
    /\ mesh[1].z0 > 0
    /\ clearance = CLEARANCE
    /\ result.mesh = mesh

\* C10: the loop selects no component twice and runs at most once per
\* component kept after the clearance filter; the considered flags are
\* exactly those of the components selected so far, the cleared kept flags
\* exactly those of the accepted ones, every selected component held its kept
\* flag when selected, while the loop condition holds the scan finds a kept
\* unconsidered component, and on return every kept component is considered.
C10_SinglePass ==
    pc \in {"loop", "done"} =>
        /\ Len(log) <= Len(kept_components)
        /\ \A j, k \in 1..Len(log) : j # k => log[j].idx # log[k].idx
        /\ \A i \in 1..Len(kept_components) :
               /\ considered_flags[i] <=> \E k \in 1..Len(log) : log[k].idx = i
               /\ ~kept_flags[i] <=>
                      \E k \in 1..Len(log) :
                          log[k].idx = i /\ log[k].outcome = "accepted"
        /\ \A k \in 1..Len(log) : log[k].idx \in KeptAfter(log, k - 1)
        /\ pc = "done" =>
               \A i \in 1..Len(kept_components) :
                   kept_flags[i] => considered_flags[i]
        /\ (pc = "loop" /\ LoopCondition) =>
               /\ FarthestIdx \in 1..Len(kept_components)
               /\ kept_flags[FarthestIdx] /\ ~considered_flags[FarthestIdx]

\* A component was rejected, a later removal was accepted, and the loop ended
\* after one iteration per component with the rejected one still kept.
C10_Witness ==
    /\ pc = "done"
    /\ Len(kept_components) >= 3
    /\ Len(log) = Len(kept_components)
    /\ AcceptedAfterRejection(log)

\* Twice the bounding-box centroid of kept component i.
Centroid2Of(i) ==
    LET c == kept_components[i]
    IN  <<c.x0 + c.x1, c.y0 + c.y1, c.z0 + c.z1>>

\* (2n)^2 times the squared Euclidean distance of component i's centroid from
\* the mean of the centroids of the n components in K.
FromMean2(i, K) ==
    LET n == Cardinality(K)
        Total[k \in 0..Len(kept_components)] ==
            IF k = 0 THEN <<0, 0, 0>>
            ELSE LET t == Total[k - 1]
                     c == Centroid2Of(k)
                 IN  IF k \in K THEN <<t[1] + c[1], t[2] + c[2], t[3] + c[3]>>
                     ELSE t
        s == Total[Len(kept_components)]
        c == Centroid2Of(i)
    IN    (n * c[1] - s[1]) * (n * c[1] - s[1])
        + (n * c[2] - s[2]) * (n * c[2] - s[2])
        + (n * c[3] - s[3]) * (n * c[3] - s[3])

\* The kept components not selected in the first k iterations of log l.
OpenAfter(l, k) == KeptAfter(l, k) \ { l[j].idx : j \in 1..k }

\* The components of `open` farthest from the mean of the centroids of K.
FarthestOf(open, K) ==
    { i \in open : \A j \in open : FromMean2(i, K) >= FromMean2(j, K) }

\* C11: every iteration selects, among the components kept and not yet
\* selected when it starts, the lowest-index one of those whose centroid is
\* farthest from the mean of the centroids of all components kept at that
\* moment, selected before or not; the kept and considered flags are those
\* left by the outcomes of the iterations so far, applied in that order.
C11_FarthestFirst ==
    pc \in {"loop", "done"} =>
        /\ \A k \in 1..Len(log) :
               LET far == FarthestOf(OpenAfter(log, k - 1), KeptAfter(log, k - 1))
               IN  /\ far # {}
                   /\ log[k].idx = Min(far)
        /\ { i \in 1..Len(kept_components) : kept_flags[i] }
               = KeptAfter(log, Len(log))
        /\ { i \in 1..Len(kept_components) : kept_flags[i] /\ ~considered_flags[i] }
               = OpenAfter(log, Len(log))

\* The first iteration selected the single farthest of three components, not
\* the first in the list, and its removal was accepted; the second iteration
\* then selected the lower-index of the two left, which are equally far from
\* their own mean, although the other is farther from the mean of all three.
C11_Witness ==
    /\ pc = "done"
    /\ Len(kept_components) = 3
    /\ Len(log) = 3
    /\ log[1].idx # 1
    /\ Cardinality(FarthestOf(OpenAfter(log, 0), KeptAfter(log, 0))) = 1
    /\ log[1].outcome = "accepted"
    /\ Cardinality(FarthestOf(OpenAfter(log, 1), KeptAfter(log, 1))) = 2
    /\ \E j \in OpenAfter(log, 1) :
           FromMean2(j, KeptAfter(log, 0)) > FromMean2(log[2].idx, KeptAfter(log, 0))

====
